---------------------------- MODULE Spec2Model ----------------------------
(***************************************************************************)
(* A model of lsrv (src/lsrv.go): the wiki's router (makeHandler and the   *)
(* validPath pattern), its page store (Page.save, loadPage) and the three  *)
(* handlers, run by concurrent requests over one working directory.        *)
(*                                                                         *)
(* A string is a sequence of one-character strings, so that the pattern    *)
(* match, the file names and the HTML escaping are computed character by   *)
(* character.                                                              *)
(***************************************************************************)
EXTENDS Naturals, Sequences, FiniteSets, TLC

VARIABLES
    files,       \* the working directory: file name -> [data, readable, writable, isDir]
    dirWritable, \* whether the process may create files in the working directory
    req,         \* per connection slot: the request being handled and its locals
    lastSaved,   \* history: file name -> body of the latest undisturbed successful save
    probe,       \* RouterSpec only: a path and what validPath made of it
    phase,       \* where the process is: makeEdit, makeView, parse, serving, panic
    templates,   \* the package variable templates: <<>> while nil, else <<set>>
    tmplFiles,   \* the template source files of the working directory
    atStart      \* history: tmplFiles as the process found them

startup == <<phase, templates, tmplFiles, atStart>>

vars == <<files, dirWritable, req, lastSaved, probe, phase, templates, tmplFiles, atStart>>

Nil == "nil"

-----------------------------------------------------------------------------
(* Characters and strings *)

Lower == {"a","b","c","d","e","f","g","h","i","j","k","l","m",
          "n","o","p","q","r","s","t","u","v","w","x","y","z"}
Upper == {"A","B","C","D","E","F","G","H","I","J","K","L","M",
          "N","O","P","Q","R","S","T","U","V","W","X","Y","Z"}
Digit == {"0","1","2","3","4","5","6","7","8","9"}

\* a character class that lets a dot and a slash into the title
TitleClassWithDots == Lower \cup Upper \cup Digit \cup {".", "/"}

\* the character class [a-zA-Z0-9] of validPath
TitleClass == Lower \cup Upper \cup Digit

\* the alternation (edit|save|view) of validPath, in the pattern's order
ActionWords == << <<"e","d","i","t">>, <<"s","a","v","e">>, <<"v","i","e","w">> >>

Slash == <<"/">>
TxtExt == <<".","t","x","t">>

HasPrefixAt(s, i, lit) ==
    /\ i + Len(lit) - 1 <= Len(s)
    /\ \A k \in 1..Len(lit) : s[i + k - 1] = lit[k]

HasPrefix(s, lit) == HasPrefixAt(s, 1, lit)

\* the position after the longest run of class characters starting at i
RECURSIVE ClassRun(_, _, _)
ClassRun(s, i, class) ==
    IF i <= Len(s) /\ s[i] \in class THEN ClassRun(s, i + 1, class) ELSE i

-----------------------------------------------------------------------------
(* The router pattern: ^/(edit|save|view)/([a-zA-Z0-9]+)$ *)

\* the pattern without its end anchor: anything may follow the title
EndAnchorMissing(s, i) == TRUE

\* Whether the pattern's end anchor holds at position i of s: Go's $ without
\* the m flag is the end of the text.
EndAnchor(s, i) == i = Len(s) + 1

\* a nil result of FindStringSubmatch
NoMatch == <<>>

\* validPath.FindStringSubmatch(path): NoMatch, or <<whole match, action, title>>
FindStringSubmatch(path) ==
    LET alts == {k \in 1..Len(ActionWords) :
                    HasPrefixAt(path, 1, Slash \o ActionWords[k] \o Slash)}
    IN  IF alts = {} THEN NoMatch
        ELSE LET k     == CHOOSE a \in alts : \A b \in alts : a <= b
                 start == Len(ActionWords[k]) + 3
                 stop  == ClassRun(path, start, TitleClass)
             IN  IF stop = start THEN NoMatch
                 ELSE IF ~EndAnchor(path, stop) THEN NoMatch
                 ELSE <<path, ActionWords[k], SubSeq(path, start, stop - 1)>>

-----------------------------------------------------------------------------
(* The serving layer: net/http's ServeMux over the four registered patterns *)

\* the segments of s between slashes
RECURSIVE SplitFrom(_, _, _)
SplitFrom(s, i, cur) ==
    IF i > Len(s) THEN <<cur>>
    ELSE IF s[i] = "/" THEN <<cur>> \o SplitFrom(s, i + 1, <<>>)
    ELSE SplitFrom(s, i + 1, Append(cur, s[i]))

Split(s) == SplitFrom(s, 1, <<>>)

\* path.Clean on the segments of a rooted path: empty and "." segments are
\* dropped, ".." drops the segment before it (and itself at the root)
RECURSIVE CleanSegs(_, _)
CleanSegs(segs, out) ==
    IF segs = <<>> THEN out
    ELSE LET s == Head(segs)
         IN  IF s = <<>> \/ s = <<".">> THEN CleanSegs(Tail(segs), out)
             ELSE IF s = <<".", ".">>
                  THEN CleanSegs(Tail(segs),
                                 IF out = <<>> THEN out ELSE SubSeq(out, 1, Len(out) - 1))
             ELSE CleanSegs(Tail(segs), Append(out, s))

RECURSIVE JoinSegs(_)
JoinSegs(segs) ==
    IF segs = <<>> THEN <<>> ELSE Slash \o Head(segs) \o JoinSegs(Tail(segs))

\* net/http's cleanPath: the canonical path, its trailing slash kept
CleanPath(p) ==
    IF p = <<>> THEN Slash
    ELSE LET rooted == IF p[1] = "/" THEN p ELSE Slash \o p
             joined == JoinSegs(CleanSegs(Split(rooted), <<>>))
             np     == IF joined = <<>> THEN Slash ELSE joined
         IN  IF rooted[Len(rooted)] = "/" /\ np # Slash THEN np \o Slash ELSE np

ViewPattern == <<"/","v","i","e","w","/">>
EditPattern == <<"/","e","d","i","t","/">>
SavePattern == <<"/","s","a","v","e","/">>

\* a mux that matches the path as it was sent, without cleaning it
MuxNoClean(path) ==
    IF HasPrefix(path, ViewPattern) THEN [kind |-> "view", target |-> <<>>]
    ELSE IF HasPrefix(path, EditPattern) THEN [kind |-> "edit", target |-> <<>>]
    ELSE IF HasPrefix(path, SavePattern) THEN [kind |-> "save", target |-> <<>>]
    ELSE [kind |-> "static", target |-> <<>>]

\* The handler the mux picks for a path: a 301 to the canonical path when the
\* path is not canonical, else the longest registered pattern that prefixes it.
Mux(path) ==
    LET cp == CleanPath(path)
    IN  IF cp # path THEN [kind |-> "redirect", target |-> cp]
        ELSE IF HasPrefix(path, ViewPattern) THEN [kind |-> "view", target |-> <<>>]
        ELSE IF HasPrefix(path, EditPattern) THEN [kind |-> "edit", target |-> <<>>]
        ELSE IF HasPrefix(path, SavePattern) THEN [kind |-> "save", target |-> <<>>]
        ELSE IF path \o Slash \in {ViewPattern, EditPattern, SavePattern}
             THEN [kind |-> "redirect", target |-> path \o Slash]
        ELSE [kind |-> "static", target |-> <<>>]

-----------------------------------------------------------------------------
(* Requests: the inputs the model draws from *)

TestPage   == <<"T","e","s","t","P","a","g","e">>
OtherTitle == <<"A","1">>
HelloWorld == <<"h","e","l","l","o","=","w","o","r","l","d">>
OldText    == <<"o","l","d">>

Paths ==
    {pat \o t : pat \in {ViewPattern, EditPattern, SavePattern},
                t \in {TestPage, OtherTitle}}
    \cup { ViewPattern,                                     \* empty title
           EditPattern \o OtherTitle \o TxtExt,             \* a '.' in the title
           SavePattern \o OtherTitle \o Slash \o <<"x">>,   \* a '/' in the title
           SavePattern \o <<".","."," ">> ,                 \* dots that are no ".." segment
           <<"/","s","a","v","e">>,                         \* the pattern less its slash
           SavePattern \o <<".",".">> \o Slash \o OtherTitle,
           <<"/","n","o","n","e","x","i","s","t","e","n","t","/",".",".","/",".",".",
             "/","e","t","c","/","p","a","s","s","w","d">>,
           <<"/","e","t","c","/","p","a","s","s","w","d">> }

\* a submitted form: the fields of the request body, then those of the URL query
Field(k, v) == [k |-> k, v |-> v]
NoForm == [post |-> <<>>, query |-> <<>>]
Forms ==
    { NoForm,
      [post |-> <<Field("body", HelloWorld)>>, query |-> <<>>],
      [post |-> <<Field("hello", <<"w">>), Field("body", <<"<","y">>)>>,
       query |-> <<Field("body", <<"x">>)>>] }

\* the requests a client may send: a form goes with the save paths
Requests ==
    {[path |-> p, form |-> f] : p \in {x \in Paths : HasPrefix(x, SavePattern)}, f \in Forms}
    \cup {[path |-> p, form |-> NoForm] : p \in Paths}

\* the mux's choice for each of these paths
Routing == [p \in Paths |-> Mux(p)]

\* r.FormValue(key): the first value of the key, the request body's fields
\* before the URL query's; the empty string when there is none
FormValue(form, key) ==
    LET all == form.post \o form.query
        at  == {i \in 1..Len(all) : all[i].k = key}
    IN  IF at = {} THEN <<>>
        ELSE all[CHOOSE i \in at : \A j \in at : i <= j].v

-----------------------------------------------------------------------------
(* The page store's files *)

\* a file created by os.WriteFile with permission 0600
NewFile == [data |-> <<>>, readable |-> TRUE, writable |-> TRUE, isDir |-> FALSE]

\* an open without O_TRUNC: the old content stays
TruncateNot(file) == file

\* what O_TRUNC does to a file that is opened for writing
Truncate(file) == [file EXCEPT !.data = <<>>]

\* a write at the end of the file, as under O_APPEND
WriteAppend(data, bytes) == data \o bytes

\* a write of bytes at offset 0 of a file holding data
WriteAt0(data, bytes) == bytes \o SubSeq(data, Len(bytes) + 1, Len(data))

\* filename := title + ".txt"
FileName(title) == title \o TxtExt

\* whether os.OpenFile(name, O_WRONLY|O_CREATE|O_TRUNC, 0600) succeeds
CanOpenForWrite(name) ==
    IF name \in DOMAIN files THEN files[name].writable ELSE dirWritable

\* whether os.Open(name) succeeds
CanOpenForRead(name) == name \in DOMAIN files /\ files[name].readable

\* err.Error() of a failed open, of a failed write and of a failed read
OpenError(name) ==
    IF name \notin DOMAIN files THEN <<"open ">> \o name \o <<": no such file or directory">>
    ELSE IF files[name].isDir THEN <<"open ">> \o name \o <<": is a directory">>
    ELSE <<"open ">> \o name \o <<": permission denied">>
WriteError(name) == <<"write ">> \o name \o <<": no space left on device">>
ReadError(name) == <<"read ">> \o name \o <<": is a directory">>

\* How the write of an open file may end: the device may be full.
WriteOutcomes == {"ok", "err"}

-----------------------------------------------------------------------------
(* Rendering *)

\* an escaping that also rewrites the equals sign
EscapeCharEquals(c) ==
    CASE c = "<"  -> <<"&","l","t",";">>
      [] c = ">"  -> <<"&","g","t",";">>
      [] c = "&"  -> <<"&","a","m","p",";">>
      [] c = "="  -> <<"&","#","6","1",";">>
      [] OTHER    -> <<c>>

\* html/template's escaping of one character of text
EscapeChar(c) ==
    CASE c = "<"  -> <<"&","l","t",";">>
      [] c = ">"  -> <<"&","g","t",";">>
      [] c = "&"  -> <<"&","a","m","p",";">>
      [] c = "\"" -> <<"&","#","3","4",";">>
      [] c = "'"  -> <<"&","#","3","9",";">>
      [] c = "+"  -> <<"&","#","4","3",";">>
      [] OTHER    -> <<c>>

RECURSIVE HTMLEscape(_)
HTMLEscape(s) == IF s = <<>> THEN <<>> ELSE EscapeChar(Head(s)) \o HTMLEscape(Tail(s))

\* the output of view_html for a page
ViewHTML(p) ==
    <<"<h1>">> \o HTMLEscape(p.Title) \o <<"</h1><p>[<a href=/edit/">>
    \o HTMLEscape(p.Title) \o <<">edit</a>]</p><div>">>
    \o HTMLEscape(p.Body) \o <<"</div>">>

\* the output of edit_html for a page
EditHTML(p) ==
    <<"<h1>Editing ">> \o HTMLEscape(p.Title) \o <<"</h1><form action=/save/">>
    \o HTMLEscape(p.Title) \o <<" method=POST><textarea name=body>">>
    \o HTMLEscape(p.Body) \o <<"</textarea><input type=submit></form>">>

\* the built-in template texts
edit_html ==
    "\n<h1>Editing {{.Title}}</h1>\n\n<form action=\"/save/{{.Title}}\" method=\"POST\">\n<div><textarea name=\"body\" rows=\"20\" cols=\"80\">{{printf \"%s\" .Body}}</textarea></div>\n<div><input type=\"submit\" value=\"Save\"></div>\n</form>"
view_html ==
    "\n\t<h1>{{.Title}}</h1>\n<p>[<a href=\"/edit/{{.Title}}\">edit</a>]</p>\n<div>{{printf \"%s\" .Body}}</div>\n"

\* other texts a template file may hold: a template of the user's, a text
\* that is no template, and nothing
custom_html == "<p>{{.Title}}</p>"
broken_html == "<p>{{.Title</p>"
empty_html  == ""

\* the output of the user's template for a page
CustomHTML(p) == <<"<p>">> \o HTMLEscape(p.Title) \o <<"</p>">>

\* the output of a parsed template text for a page
Execute(text, p) ==
    CASE text = view_html   -> ViewHTML(p)
      [] text = edit_html   -> EditHTML(p)
      [] text = custom_html -> CustomHTML(p)
      [] OTHER              -> <<>>

\* the file ParseFiles named the template after
TemplateFile(tmpl) == IF tmpl = "view" THEN "view.html" ELSE "edit.html"

\* templates.ExecuteTemplate(w, tmpl + ".html", p) when it succeeds
ExecuteTemplate(tmpl, p) == Execute(templates[1][TemplateFile(tmpl)], p)

\* How an execution may end: "ok"; "failEarly", an error before anything was
\* written; "failLate", an error after part of the output (and with it the
\* 200 header) was written.
RenderOutcomes == {"ok", "failEarly", "failLate"}

\* html/template refuses to execute an empty template, before any output
ExecOutcomes(tmpl) ==
    IF templates[1][TemplateFile(tmpl)] = empty_html THEN {"failEarly"} ELSE RenderOutcomes

ExecError == <<"template: execution error">>

-----------------------------------------------------------------------------
(* One request: its position in the handler and the handler's locals *)

\* Two connections are served at a time.  The first sends any request; the
\* second is a client that only submits the edit form, so it sends the
\* requests of the save paths.
Reqs == {"c1", "c2"}

RequestsOf(c) ==
    IF c = "c1" THEN Requests
    ELSE {rq \in Requests : HasPrefix(rq.path, SavePattern)}

NoResp == [status |-> 0, location |-> <<>>, body |-> <<>>]

\* pc: idle, handler (in makeHandler's closure), static (in the fallback
\* handler), view / edit / save (in the handler, before its store call),
\* reading (inside os.ReadFile), writing (inside os.WriteFile, the file open),
\* render (before renderTemplate), done (the response is complete).
\* page is <<>> for a nil *Page and <<p>> for a page p.  loaded, saved and
\* rendered are the outcome of loadPage, p.save and ExecuteTemplate: Nil before
\* the call, then "ok" or "err"; err is the text of the handler's err, loadPage's
\* error or p.save's.
\* nload, nsave, nrender count the store and renderer calls of this request.
\* hops is the number of redirects the client followed to get to this request.
\* base, clean and prev are history: the undisturbed saved body this load
\* started from, whether no other save touched the file since this save
\* opened it, and what the file held when this save opened it.
NoReq ==
    [pc |-> "idle", path |-> <<>>, form |-> NoForm, route |-> Nil,
     title |-> <<>>, fname |-> <<>>, data |-> <<>>, page |-> <<>>, tmpl |-> Nil,
     err |-> <<>>,
     loaded |-> Nil, saved |-> Nil, rendered |-> Nil,
     nload |-> 0, nsave |-> 0, nrender |-> 0, hops |-> 0,
     base |-> <<>>, clean |-> FALSE, prev |-> <<>>, resp |-> NoResp]

Respond(q, status, location, body) ==
    [q EXCEPT !.pc = "done",
              !.resp = [status |-> status, location |-> location, body |-> body]]

\* http.NotFound(w, r)
NotFound(q) == Respond(q, 404, <<>>, <<"404 page not found">>)

\* http.Error(w, text, http.StatusInternalServerError)
ServerError(q, text) == Respond(q, 500, <<>>, text)

\* http.Redirect(w, r, url, http.StatusFound)
Redirect(q, url) == Respond(q, 302, url, <<>>)

\* renderTemplate(w, tmpl, p) is about to run
EnterRender(q, tmpl) == [q EXCEPT !.pc = "render", !.tmpl = tmpl]

\* a view that redirects only when the file does not exist
ViewAfterLoadReportsOthers(q) ==
    IF q.loaded = "err"
    THEN IF q.fname \in DOMAIN files THEN ServerError(q, q.err)
         ELSE Redirect(q, EditPattern \o q.title)
    ELSE EnterRender(q, "view")

\* a view that renders a blank page when the load fails
ViewAfterLoadRendersBlank(q) ==
    IF q.loaded = "err"
    THEN EnterRender([q EXCEPT !.page = <<[Title |-> q.title, Body |-> <<>>]>>], "view")
    ELSE EnterRender(q, "view")

\* viewHandler, from loadPage's return on
ViewAfterLoad(q) ==
    IF q.loaded = "err" THEN Redirect(q, EditPattern \o q.title)
    ELSE EnterRender(q, "view")

\* an edit that sends a missing page back to its view
EditAfterLoadRedirects(q) ==
    IF q.loaded = "err" THEN Redirect(q, ViewPattern \o q.title)
    ELSE EnterRender(q, "edit")

\* an edit that reports the load's error
EditAfterLoadFails(q) ==
    IF q.loaded = "err" THEN ServerError(q, OpenError(q.fname))
    ELSE EnterRender(q, "edit")

\* editHandler, from loadPage's return on
EditAfterLoad(q) ==
    IF q.loaded = "err"
    THEN EnterRender([q EXCEPT !.page = <<[Title |-> q.title, Body |-> <<>>]>>], "edit")
    ELSE EnterRender(q, "edit")

AfterLoad(q) == IF q.route = "view" THEN ViewAfterLoad(q) ELSE EditAfterLoad(q)

\* loadPage's two returns
LoadFailed(q, text) == [q EXCEPT !.loaded = "err", !.page = <<>>, !.err = text]
LoadSucceeded(q) ==
    [q EXCEPT !.loaded = "ok", !.page = <<[Title |-> q.title, Body |-> q.data]>>]

\* a save handler that tries a failed save once more
SaveAfterSaveRetries(q) ==
    IF q.saved = "err" /\ q.nsave < 2 THEN [q EXCEPT !.pc = "save", !.saved = Nil]
    ELSE IF q.saved = "err" THEN ServerError(q, q.err)
    ELSE Redirect(q, ViewPattern \o q.title)

\* a save handler that does not look at the error
SaveAfterSaveIgnoresError(q) == Redirect(q, ViewPattern \o q.title)

\* saveHandler, from p.save()'s return on
SaveAfterSave(q) ==
    IF q.saved = "err" THEN ServerError(q, q.err)
    ELSE Redirect(q, ViewPattern \o q.title)

\* a page built from another form field
SavePageWrongField(q) == [Title |-> q.title, Body |-> FormValue(q.form, "hello")]

\* the page saveHandler builds: Page{Title: title, Body: []byte(body)}
SavePage(q) == [Title |-> q.title, Body |-> FormValue(q.form, "body")]

\* History: a step of c's save on file f disturbs every other save that has f
\* open and every load that is reading f.
Disturbed(c, f) ==
    [d \in Reqs |->
        IF d # c /\ req[d].fname = f /\ req[d].pc \in {"reading", "writing"}
        THEN [req[d] EXCEPT !.clean = FALSE, !.base = <<>>]
        ELSE req[d]]

Without(fn, f) == [x \in DOMAIN fn \ {f} |-> fn[x]]
With(fn, f, v) == [x \in DOMAIN fn \cup {f} |-> IF x = f THEN v ELSE fn[x]]

-----------------------------------------------------------------------------
(* The initial working directory *)

\* a file that was in the directory before the server started
OldFile(rd, wr) == [data |-> OldText, readable |-> rd, writable |-> wr, isDir |-> FALSE]

\* a directory that has the name of a page file: it opens for reading, no
\* read of it succeeds, and it does not open for writing
Directory == [data |-> <<>>, readable |-> TRUE, writable |-> FALSE, isDir |-> TRUE]

\* The directories the server may start in: an empty one; one whose pages
\* exist, the second read-only; one that takes no new files, where one page
\* is another user's, neither readable nor writable, and the other page's
\* name is that of a directory.  A file the server
\* may write is one it may read: its own files have permission 0600.
InitialDirs ==
    { [files |-> <<>>, dirWritable |-> TRUE],
      [files |-> (FileName(TestPage) :> OldFile(TRUE, TRUE))
                 @@ (FileName(OtherTitle) :> OldFile(TRUE, FALSE)),
       dirWritable |-> TRUE],
      [files |-> (FileName(OtherTitle) :> OldFile(FALSE, FALSE))
                 @@ (FileName(TestPage) :> Directory),
       dirWritable |-> FALSE] }

\* a template source file
TemplateSource(text, rd, wr) == [data |-> text, readable |-> rd, writable |-> wr]

\* the two files as setup() leaves them in a directory it may write
BuiltinFiles ==
    [n \in {"edit.html", "view.html"} |->
        TemplateSource(IF n = "edit.html" THEN edit_html ELSE view_html, TRUE, TRUE)]

\* what template.ParseFiles("edit.html", "view.html") makes of the files
ParsedFiles(tf) == [n \in {"edit.html", "view.html"} |-> tf[n].data]

\* The state after init() has run in a directory it may write: the files hold
\* the built-in texts, the templates are parsed, the server listens.
Init ==
    /\ \E d \in InitialDirs : files = d.files /\ dirWritable = d.dirWritable
    /\ req = [c \in Reqs |-> NoReq]
    /\ lastSaved = <<>>
    /\ probe = [path |-> <<>>, m |-> NoMatch, tried |-> FALSE]
    /\ phase = "serving"
    /\ tmplFiles = BuiltinFiles
    /\ atStart = BuiltinFiles
    /\ templates = <<ParsedFiles(BuiltinFiles)>>

-----------------------------------------------------------------------------
(* The steps of a request *)

\* a server that takes requests before init() has finished
ServeHTTPBeforeInit(c) ==
    /\ req[c].pc = "idle"
    /\ \E rq \in RequestsOf(c) :
        LET q == [NoReq EXCEPT !.path = rq.path, !.form = rq.form]
            m == Routing[rq.path]
        IN  req' = [req EXCEPT ![c] =
                CASE m.kind = "redirect" -> Respond(q, 301, m.target, <<>>)
                  [] m.kind = "static"   -> [q EXCEPT !.pc = "static", !.route = "static"]
                  [] OTHER               -> [q EXCEPT !.pc = "handler", !.route = m.kind]]
    /\ UNCHANGED <<files, dirWritable, lastSaved, probe, startup>>

\* The server accepts a request and the mux picks its handler; it listens
\* once init() has returned and main has registered the handlers.
ServeHTTP(c) ==
    /\ phase = "serving"
    /\ req[c].pc = "idle"
    /\ \E rq \in RequestsOf(c) :
        LET q == [NoReq EXCEPT !.path = rq.path, !.form = rq.form]
            m == Routing[rq.path]
        IN  req' = [req EXCEPT ![c] =
                CASE m.kind = "redirect" -> Respond(q, 301, m.target, <<>>)
                  [] m.kind = "static"   -> [q EXCEPT !.pc = "static", !.route = "static"]
                  [] OTHER               -> [q EXCEPT !.pc = "handler", !.route = m.kind]]
    /\ UNCHANGED <<files, dirWritable, lastSaved, probe, startup>>

\* The fallback handler: http.ServeFile answers from the content directory.
StaticFile(c) ==
    /\ req[c].pc = "static"
    /\ \E status \in {200, 404} :
        req' = [req EXCEPT ![c] = Respond(req[c], status, <<>>, <<"static">>)]
    /\ UNCHANGED <<files, dirWritable, lastSaved, probe, startup>>

\* a closure that calls the handler whatever the pattern says
MakeHandlerUnguarded(c) ==
    /\ req[c].pc = "handler"
    /\ req' = [req EXCEPT ![c] =
            [req[c] EXCEPT !.pc = req[c].route,
                           !.title = SubSeq(req[c].path, 7, Len(req[c].path))]]
    /\ UNCHANGED <<files, dirWritable, lastSaved, probe, startup>>

\* makeHandler's closure: the pattern guards the handler.
MakeHandler(c) ==
    /\ req[c].pc = "handler"
    /\ LET m == FindStringSubmatch(req[c].path)
       IN  req' = [req EXCEPT ![c] =
                IF m = NoMatch THEN NotFound(req[c])
                ELSE [req[c] EXCEPT !.pc = req[c].route, !.title = m[3]]]
    /\ UNCHANGED <<files, dirWritable, lastSaved, probe, startup>>

\* a load that creates the file it does not find
LoadOpenCreating(c) ==
    /\ req[c].pc \in {"view", "edit"}
    /\ LET f == FileName(req[c].title)
           q == [req[c] EXCEPT !.fname = f, !.nload = @ + 1,
                               !.base = IF f \in DOMAIN lastSaved
                                        THEN <<lastSaved[f]>> ELSE <<>>]
       IN  /\ req' = [req EXCEPT ![c] =
                 IF f \notin DOMAIN files \/ files[f].readable
                 THEN [q EXCEPT !.pc = "reading", !.data = <<>>]
                 ELSE AfterLoad(LoadFailed(q, OpenError(f)))]
           /\ files' = IF f \in DOMAIN files THEN files ELSE With(files, f, NewFile)
    /\ UNCHANGED <<dirWritable, lastSaved, probe, startup>>

\* viewHandler and editHandler call loadPage: os.ReadFile opens the file.
LoadOpen(c) ==
    /\ req[c].pc \in {"view", "edit"}
    /\ LET f == FileName(req[c].title)
           q == [req[c] EXCEPT !.fname = f, !.nload = @ + 1,
                               !.base = IF f \in DOMAIN lastSaved
                                        THEN <<lastSaved[f]>> ELSE <<>>]
       IN  req' = [req EXCEPT ![c] =
                IF CanOpenForRead(f)
                THEN [q EXCEPT !.pc = "reading", !.data = <<>>]
                ELSE AfterLoad(LoadFailed(q, OpenError(f)))]
    /\ UNCHANGED <<files, dirWritable, lastSaved, probe, startup>>

\* a load that takes the first two bytes of one read for the whole file
LoadReadOneChunk(c) ==
    /\ req[c].pc = "reading"
    /\ LET now == files[req[c].fname].data
       IN  req' = [req EXCEPT ![c] =
                IF files[req[c].fname].isDir
                THEN AfterLoad(LoadFailed(req[c], ReadError(req[c].fname)))
                ELSE AfterLoad(LoadSucceeded(
                         [req[c] EXCEPT !.data = SubSeq(now, 1, IF Len(now) < 2 THEN Len(now) ELSE 2)]))]
    /\ UNCHANGED <<files, dirWritable, lastSaved, probe, startup>>

\* os.ReadFile reads from its offset until a read returns nothing; a read
\* of a directory fails.
LoadRead(c) ==
    /\ req[c].pc = "reading"
    /\ LET have  == req[c].data
           now   == files[req[c].fname].data
           chunk == SubSeq(now, Len(have) + 1, Len(now))
       IN  req' = [req EXCEPT ![c] =
                IF files[req[c].fname].isDir
                THEN AfterLoad(LoadFailed(req[c], ReadError(req[c].fname)))
                ELSE IF chunk = <<>> THEN AfterLoad(LoadSucceeded(req[c]))
                ELSE [req[c] EXCEPT !.data = have \o chunk]]
    /\ UNCHANGED <<files, dirWritable, lastSaved, probe, startup>>

\* renderTemplate: the page goes through the named template.
RenderTemplate(c) ==
    /\ req[c].pc = "render"
    /\ \E outcome \in ExecOutcomes(req[c].tmpl) :
        LET q   == [req[c] EXCEPT !.nrender = @ + 1,
                                  !.rendered = IF outcome = "ok" THEN "ok" ELSE "err"]
            out == ExecuteTemplate(q.tmpl, q.page[1])
        IN  req' = [req EXCEPT ![c] =
                CASE outcome = "ok"        -> Respond(q, 200, <<>>, out)
                  [] outcome = "failEarly" -> ServerError(q, ExecError)
                  [] OTHER -> Respond(q, 200, <<>>, SubSeq(out, 1, 1) \o ExecError)]
    /\ UNCHANGED <<files, dirWritable, lastSaved, probe, startup>>

\* saveHandler calls p.save(): os.WriteFile opens the file, creating or
\* truncating it.
SaveOpen(c) ==
    /\ req[c].pc = "save"
    /\ LET f == FileName(SavePage(req[c]).Title)
           q == [req[c] EXCEPT !.fname = f, !.nsave = @ + 1,
                               !.data = SavePage(req[c]).Body]
       IN  IF CanOpenForWrite(f)
           THEN /\ files' = With(files, f,
                      IF f \in DOMAIN files THEN Truncate(files[f]) ELSE NewFile)
                /\ req' = [Disturbed(c, f) EXCEPT ![c] =
                      [q EXCEPT !.pc = "writing", !.clean = TRUE,
                                !.prev = IF f \in DOMAIN files
                                         THEN <<files[f].data>> ELSE <<>>]]
                /\ lastSaved' = Without(lastSaved, f)
           ELSE /\ req' = [req EXCEPT ![c] =
                      SaveAfterSave([q EXCEPT !.saved = "err", !.err = OpenError(f)])]
                /\ UNCHANGED <<files, lastSaved>>
    /\ UNCHANGED <<dirWritable, probe, startup>>

\* a write that removes the file when it fails
SaveWriteRemovesOnFailure(c) ==
    /\ req[c].pc = "writing"
    /\ \E outcome \in WriteOutcomes :
        LET f == req[c].fname
        IN  IF outcome = "ok"
            THEN /\ files' = [files EXCEPT ![f].data = WriteAt0(@, req[c].data)]
                 /\ req' = [Disturbed(c, f) EXCEPT ![c] =
                       SaveAfterSave([req[c] EXCEPT !.saved = "ok"])]
                 /\ lastSaved' = IF req[c].clean THEN With(lastSaved, f, req[c].data)
                                 ELSE Without(lastSaved, f)
            ELSE /\ req' = [req EXCEPT ![c] =
                       SaveAfterSave([req[c] EXCEPT !.saved = "err", !.err = WriteError(f)])]
                 /\ files' = Without(files, f)
                 /\ UNCHANGED lastSaved
    /\ UNCHANGED <<dirWritable, probe, startup>>

\* os.WriteFile writes the body at the start of the open file and closes it;
\* a write that fails leaves the file as the open left it.
SaveWrite(c) ==
    /\ req[c].pc = "writing"
    /\ \E outcome \in WriteOutcomes :
        LET f == req[c].fname
        IN  IF outcome = "ok"
            THEN /\ files' = [files EXCEPT ![f].data = WriteAt0(@, req[c].data)]
                 /\ req' = [Disturbed(c, f) EXCEPT ![c] =
                       SaveAfterSave([req[c] EXCEPT !.saved = "ok"])]
                 /\ lastSaved' = IF req[c].clean THEN With(lastSaved, f, req[c].data)
                                 ELSE Without(lastSaved, f)
            ELSE /\ req' = [req EXCEPT ![c] =
                       SaveAfterSave([req[c] EXCEPT !.saved = "err", !.err = WriteError(f)])]
                 /\ UNCHANGED <<files, lastSaved>>
    /\ UNCHANGED <<dirWritable, probe, startup>>

\* The response is sent and the connection takes its next request.
Finish(c) ==
    /\ req[c].pc = "done"
    /\ req' = [req EXCEPT ![c] = NoReq]
    /\ UNCHANGED <<files, dirWritable, lastSaved, probe, startup>>

Next ==
    \E c \in Reqs :
        \/ ServeHTTP(c)
        \/ StaticFile(c)
        \/ MakeHandler(c)
        \/ LoadOpen(c)
        \/ LoadRead(c)
        \/ RenderTemplate(c)
        \/ SaveOpen(c)
        \/ SaveWrite(c)
        \/ Finish(c)

Spec == Init /\ [][Next]_vars

-----------------------------------------------------------------------------
(* The router pattern on its own: every path of a bounded family is matched *)

MaxTitleLen == 2

SeqsUpTo(S, n) == UNION {[1..k -> S] : k \in 0..n}

RouterChars == {"a", "Z", "7", ".", "/", "_", " ", "\n"}

RouterPrefixes ==
    { ViewPattern, EditPattern, SavePattern,
      <<"/","V","i","e","w","/">>, <<"/","v","i","e","w","s","/">>,
      <<"v","i","e","w","/">>, <<"/","/","v","i","e","w","/">>,
      <<"x","/","s","a","v","e","/">>, <<"/","d","e","l","e","t","e","/">>,
      <<"/","e","d","i","t">>, <<"/">> }

RouterPaths ==
    {pre \o t : pre \in RouterPrefixes, t \in SeqsUpTo(RouterChars, MaxTitleLen)}

RouterInit ==
    /\ files = <<>>
    /\ dirWritable = TRUE
    /\ req = [c \in Reqs |-> NoReq]
    /\ lastSaved = <<>>
    /\ \E p \in RouterPaths : probe = [path |-> p, m |-> NoMatch, tried |-> FALSE]
    /\ phase = "serving"
    /\ tmplFiles = BuiltinFiles
    /\ atStart = BuiltinFiles
    /\ templates = <<ParsedFiles(BuiltinFiles)>>

\* m := validPath.FindStringSubmatch(r.URL.Path)
Probe ==
    /\ ~probe.tried
    /\ probe' = [probe EXCEPT !.m = FindStringSubmatch(probe.path), !.tried = TRUE]
    /\ UNCHANGED <<files, dirWritable, req, lastSaved, startup>>

RouterNext == Probe

RouterSpec == RouterInit /\ [][RouterNext]_vars

-----------------------------------------------------------------------------
(* Startup: init() runs setup(), parses the two template files and compiles *)
(* the pattern; then main registers the handlers and listens.               *)

\* whether os.Create(name) succeeds: it opens the file for reading and
\* writing, and creates it when there is none
CanCreate(name) ==
    IF name \in DOMAIN tmplFiles
    THEN tmplFiles[name].readable /\ tmplFiles[name].writable
    ELSE dirWritable

\* a makeFile that leaves a file that is there alone
makeFileIfAbsent(name, content) ==
    IF name \notin DOMAIN tmplFiles /\ dirWritable
    THEN \E outcome \in WriteOutcomes :
            tmplFiles' = With(tmplFiles, name,
                TemplateSource(IF outcome = "ok" THEN content ELSE empty_html, TRUE, TRUE))
    ELSE UNCHANGED tmplFiles

\* makeFile(name, content): os.Create creates the file or truncates it, and
\* the text is written to it; an error of either call is dropped.
makeFile(name, content) ==
    IF CanCreate(name)
    THEN \E outcome \in WriteOutcomes :
            tmplFiles' = With(tmplFiles, name,
                TemplateSource(IF outcome = "ok" THEN content ELSE empty_html, TRUE, TRUE))
    ELSE UNCHANGED tmplFiles

\* setup(), first call: makeFile("edit.html", edit_html)
SetupEdit ==
    /\ phase = "makeEdit"
    /\ makeFile("edit.html", edit_html)
    /\ phase' = "makeView"
    /\ UNCHANGED <<files, dirWritable, req, lastSaved, probe, templates, atStart>>

\* setup(), second call: makeFile("view.html", view_html)
SetupView ==
    /\ phase = "makeView"
    /\ makeFile("view.html", view_html)
    /\ phase' = "parse"
    /\ UNCHANGED <<files, dirWritable, req, lastSaved, probe, templates, atStart>>

\* whether ParseFiles can read the file and parse its text
Parses(name) ==
    /\ name \in DOMAIN tmplFiles
    /\ tmplFiles[name].readable
    /\ tmplFiles[name].data # broken_html

\* templates = template.Must(template.ParseFiles("edit.html", "view.html")):
\* Must panics on an error and the process ends before main runs.
ParseFiles ==
    /\ phase = "parse"
    /\ IF Parses("edit.html") /\ Parses("view.html")
       THEN templates' = <<ParsedFiles(tmplFiles)>> /\ phase' = "serving"
       ELSE templates' = templates /\ phase' = "panic"
    /\ UNCHANGED <<files, dirWritable, req, lastSaved, probe, tmplFiles, atStart>>

\* The template files the process may find when it starts: none; a template
\* of the user's as edit.html; that template read-only, beside a view.html of
\* an earlier run; a read-only edit.html that is no template.
StartTemplates ==
    { <<>>,
      ("edit.html" :> TemplateSource(custom_html, TRUE, TRUE)),
      ("edit.html" :> TemplateSource(custom_html, TRUE, FALSE))
          @@ ("view.html" :> TemplateSource(view_html, TRUE, TRUE)),
      ("edit.html" :> TemplateSource(broken_html, TRUE, FALSE)) }

StartupInit ==
    /\ \E d \in InitialDirs : files = d.files /\ dirWritable = d.dirWritable
    /\ req = [c \in Reqs |-> NoReq]
    /\ lastSaved = <<>>
    /\ probe = [path |-> <<>>, m |-> NoMatch, tried |-> FALSE]
    /\ phase = "makeEdit"
    /\ templates = <<>>
    /\ \E t \in StartTemplates : tmplFiles = t /\ atStart = t

\* the process from its start on, serving one connection
StartupNext ==
    \/ SetupEdit
    \/ SetupView
    \/ ParseFiles
    \/ ServeHTTP("c1")
    \/ StaticFile("c1")
    \/ MakeHandler("c1")
    \/ LoadOpen("c1")
    \/ LoadRead("c1")
    \/ RenderTemplate("c1")
    \/ SaveOpen("c1")
    \/ SaveWrite("c1")
    \/ Finish("c1")

StartupSpec == StartupInit /\ [][StartupNext]_vars

-----------------------------------------------------------------------------
(* One request on each connection, the second a save: every interleaving of *)
(* the steps of a request with those of one save.                           *)
RaceNext ==
    \E c \in Reqs :
        \/ ServeHTTP(c)
        \/ StaticFile(c)
        \/ MakeHandler(c)
        \/ LoadOpen(c)
        \/ LoadRead(c)
        \/ RenderTemplate(c)
        \/ SaveOpen(c)
        \/ SaveWrite(c)

RaceSpec == Init /\ [][RaceNext]_vars

-----------------------------------------------------------------------------
(* Clients that follow redirects: the Location of a 302 is the path of the  *)
(* client's next request, a GET without a form.                             *)

\* the redirects a client follows before it gives up
MaxHops == 3

\* http.Redirect's response is followed: the connection sends its target.
FollowRedirect(c) ==
    /\ phase = "serving"
    /\ req[c].pc = "done"
    /\ req[c].resp.status = 302
    /\ req[c].hops < MaxHops
    /\ LET q == [NoReq EXCEPT !.path = req[c].resp.location, !.hops = req[c].hops + 1]
           m == Routing[q.path]
       IN  req' = [req EXCEPT ![c] =
                CASE m.kind = "redirect" -> Respond(q, 301, m.target, <<>>)
                  [] m.kind = "static"   -> [q EXCEPT !.pc = "static", !.route = "static"]
                  [] OTHER               -> [q EXCEPT !.pc = "handler", !.route = m.kind]]
    /\ UNCHANGED <<files, dirWritable, lastSaved, probe, startup>>

\* a page file of permission 0200: the process may write it and not read it
WriteOnlyFile == [data |-> OldText, readable |-> FALSE, writable |-> TRUE, isDir |-> FALSE]

\* The directories the followed requests run in: an empty one, and one whose
\* first page is write-only and whose second is read-only.
ChainDirs ==
    { [files |-> <<>>, dirWritable |-> TRUE],
      [files |-> (FileName(TestPage) :> WriteOnlyFile)
                 @@ (FileName(OtherTitle) :> OldFile(TRUE, FALSE)),
       dirWritable |-> TRUE] }

ChainInit ==
    /\ \E d \in ChainDirs : files = d.files /\ dirWritable = d.dirWritable
    /\ req = [c \in Reqs |-> NoReq]
    /\ lastSaved = <<>>
    /\ probe = [path |-> <<>>, m |-> NoMatch, tried |-> FALSE]
    /\ phase = "serving"
    /\ tmplFiles = BuiltinFiles
    /\ atStart = BuiltinFiles
    /\ templates = <<ParsedFiles(BuiltinFiles)>>

ChainNext ==
    \/ Next
    \/ FollowRedirect("c1")

ChainSpec == ChainInit /\ [][ChainNext]_vars

-----------------------------------------------------------------------------
(* What the claims speak of, stated without the code's own operators *)

\* the ASCII letters and digits
AlNum ==
    {"a","b","c","d","e","f","g","h","i","j","k","l","m","n","o","p","q","r","s",
     "t","u","v","w","x","y","z","A","B","C","D","E","F","G","H","I","J","K","L",
     "M","N","O","P","Q","R","S","T","U","V","W","X","Y","Z","0","1","2","3","4",
     "5","6","7","8","9"}

IsTitle(t) == t # <<>> /\ \A i \in 1..Len(t) : t[i] \in AlNum

ActionNames == {<<"v","i","e","w">>, <<"e","d","i","t">>, <<"s","a","v","e">>}

\* the path is /<action>/<title>: three segments, the first empty
IsPagePath(p) ==
    LET segs == Split(p)
    IN  /\ Len(segs) = 3
        /\ segs[1] = <<>>
        /\ segs[2] \in ActionNames
        /\ IsTitle(segs[3])

TitleOf(p) == Split(p)[3]
ActionOf(p) == Split(p)[2]

\* the same for the paths the requests carry
PagePaths == {p \in Paths : IsPagePath(p)}
TitleOfPath == [p \in PagePaths |-> TitleOf(p)]

\* the value of the submitted form field named key: the request body's first,
\* else the URL query's first, else empty
Submitted(form, key) ==
    IF \E i \in 1..Len(form.post) : form.post[i].k = key
    THEN form.post[CHOOSE i \in 1..Len(form.post) :
             /\ form.post[i].k = key
             /\ \A j \in 1..(i - 1) : form.post[j].k # key].v
    ELSE IF \E i \in 1..Len(form.query) : form.query[i].k = key
    THEN form.query[CHOOSE i \in 1..Len(form.query) :
             /\ form.query[i].k = key
             /\ \A j \in 1..(i - 1) : form.query[j].k # key].v
    ELSE <<>>

\* sub occurs in s as a run of consecutive elements
Contains(s, sub) ==
    \E i \in 1..(Len(s) - Len(sub) + 1) : SubSeq(s, i, i + Len(sub) - 1) = sub

\* the file name of a page: an alphanumeric title and ".txt"
IsPageFile(f) ==
    /\ Len(f) > Len(TxtExt)
    /\ SubSeq(f, Len(f) - Len(TxtExt) + 1, Len(f)) = TxtExt
    /\ IsTitle(SubSeq(f, 1, Len(f) - Len(TxtExt)))

\* connection c took the step (the history fields aside, which another
\* connection's save resets)
Stepped(c) ==
    [req'[c] EXCEPT !.base = <<>>, !.clean = FALSE]
        # [req[c] EXCEPT !.base = <<>>, !.clean = FALSE]

\* a request whose handler is one of the three page handlers
PageRoutes == {"view", "edit", "save"}
InHandlerBody(q) == q.pc \in {"view", "edit", "save", "reading", "writing", "render"}

-----------------------------------------------------------------------------
(* C2: the router matches a path if and only if the whole path is           *)
(* /<action>/<title> with action view, edit or save and title a non-empty   *)
(* string of ASCII letters and digits; the title it extracts is that        *)
(* segment; every other path is no match.                                   *)
C2_RouterMatchesExactly ==
    probe.tried =>
        /\ (probe.m # NoMatch) <=> IsPagePath(probe.path)
        /\ probe.m # NoMatch =>
              /\ probe.m[1] = probe.path
              /\ probe.m[2] = ActionOf(probe.path)
              /\ probe.m[3] = TitleOf(probe.path)

\* a path with a two-character title was matched
C2_Witness ==
    /\ probe.tried
    /\ probe.m # NoMatch
    /\ Len(probe.m[3]) = MaxTitleLen
    /\ probe.m[2] = <<"s","a","v","e">>

-----------------------------------------------------------------------------
-----------------------------------------------------------------------------
(* C3: the route check is a guard.  A request given to the view, edit or    *)
(* save route whose path does not match is answered 404 with no load, no    *)
(* save, no render and no redirect; a handler body runs only for a path     *)
(* that matches.                                                            *)
C3_GuardBeforeHandler ==
    \A c \in Reqs :
        LET q == req[c]
        IN  /\ (q.route \in PageRoutes /\ q.pc # "handler" /\ q.path \notin PagePaths) =>
                  /\ q.pc = "done"
                  /\ q.resp.status = 404
                  /\ q.resp.location = <<>>
                  /\ q.nload = 0 /\ q.nsave = 0 /\ q.nrender = 0
                  /\ q.loaded = Nil /\ q.saved = Nil /\ q.rendered = Nil
            /\ (InHandlerBody(q) \/ q.nload + q.nsave + q.nrender > 0) =>
                  q.path \in PagePaths

\* a request on the save route with a path that does not match was answered
C3_Witness ==
    \E c \in Reqs :
        /\ req[c].route = "save" /\ req[c].pc = "done"
        /\ req[c].path \notin PagePaths
        /\ req[c].resp.status = 404

-----------------------------------------------------------------------------
(* C4: no path traversal.  Every file name the page store opens is the      *)
(* title segment of the request's matched path, all ASCII letters and       *)
(* digits, followed by ".txt"; every file of the directory is such a name.  *)
C4_NoPathTraversal ==
    /\ \A c \in Reqs :
          LET q == req[c]
          IN  q.fname # <<>> =>
                  /\ q.path \in PagePaths
                  /\ q.fname = TitleOfPath[q.path] \o <<".","t","x","t">>
                  /\ \A i \in 1..Len(TitleOfPath[q.path]) : TitleOfPath[q.path][i] \notin {".", "/"}
    /\ \A f \in DOMAIN files : IsPageFile(f)

\* a save has the second title's file open while the mux has passed a path
\* with a dot in its title to the edit route
C4_Witness ==
    \E c, d \in Reqs :
        /\ req[c].pc = "writing" /\ req[c].fname = FileName(OtherTitle)
        /\ req[d].route = "edit" /\ req[d].pc = "done"
        /\ \E i \in 1..Len(req[d].path) : req[d].path[i] = "."

-----------------------------------------------------------------------------
(* C5: view on a title whose load fails answers 302 to /edit/<title> for    *)
(* the same title and never renders; view on a title whose load succeeds    *)
(* renders the "view" template with the loaded page and never redirects.    *)
C5_ViewRedirectsOrRenders ==
    \A c \in Reqs :
        LET q == req[c]
        IN  q.route = "view" =>
              /\ q.loaded = "err" =>
                    /\ q.pc = "done"
                    /\ q.resp.status = 302
                    /\ q.resp.location = <<"/","e","d","i","t","/">> \o TitleOfPath[q.path]
                    /\ q.nrender = 0 /\ q.tmpl = Nil
              /\ q.loaded = "ok" =>
                    /\ q.pc \in {"render", "done"}
                    /\ q.tmpl = "view"
                    /\ q.page = <<[Title |-> TitleOfPath[q.path], Body |-> q.data]>>
                    /\ q.resp.location = <<>>
                    /\ q.pc = "done" =>
                          /\ q.nrender = 1
                          /\ q.resp.status \in {200, 500}
                          /\ q.rendered = "ok" => q.resp.body = ViewHTML(q.page[1])

\* a view of a page that has no file was redirected to edit
C5_Witness ==
    \E c \in Reqs :
        /\ req[c].route = "view" /\ req[c].loaded = "err" /\ req[c].pc = "done"
        /\ req[c].fname \notin DOMAIN files
        /\ req[c].resp.status = 302

-----------------------------------------------------------------------------
(* C6: edit on a title whose load fails renders the "edit" template with    *)
(* the page of the requested title and an empty body; the missing page      *)
(* brings no redirect and no error (an answer other than the rendered form  *)
(* is a failure of the template execution), and no step of an edit request  *)
(* creates a file.                                                          *)
C6_EditBlankState ==
    \A c \in Reqs :
        LET q     == req[c]
            blank == [Title |-> TitleOfPath[q.path], Body |-> <<>>]
        IN  (q.route = "edit" /\ q.loaded = "err") =>
              /\ q.pc \in {"render", "done"}
              /\ q.tmpl = "edit"
              /\ q.page = <<blank>>
              /\ q.resp.location = <<>>
              /\ q.pc = "done" =>
                    /\ q.nrender = 1
                    /\ q.rendered = "ok" =>
                          /\ q.resp.status = 200
                          /\ q.resp.body = EditHTML(blank)
                    /\ q.resp.status # 200 => q.rendered = "err"

C6_EditCreatesNothing ==
    \A c \in Reqs :
        (req[c].route = "edit" /\ Stepped(c)) => DOMAIN files' = DOMAIN files

\* C6: edit on a missing page renders the blank form for that title, in every
\* state, and no step of an edit request creates a file.
C6_EditMissingPage == []C6_EditBlankState /\ [][C6_EditCreatesNothing]_vars

\* the blank form was rendered for a page that still has no file
C6_Witness ==
    \E c \in Reqs :
        /\ req[c].route = "edit" /\ req[c].loaded = "err"
        /\ req[c].pc = "done" /\ req[c].rendered = "ok"
        /\ req[c].fname \notin DOMAIN files

-----------------------------------------------------------------------------
(* C7: when the store's save fails the save handler answers 500 with the    *)
(* error text and no redirect; a redirect, to /view/<title>, is issued      *)
(* only after the save returned success.                                    *)
C7_SaveFailureIs500 ==
    \A c \in Reqs :
        LET q == req[c]
        IN  q.route = "save" =>
              /\ q.saved = "err" =>
                    /\ q.pc = "done"
                    /\ q.resp.status = 500
                    /\ q.resp.body \in {<<"open ">> \o q.fname \o <<": permission denied">>,
                                        <<"open ">> \o q.fname \o <<": is a directory">>,
                                        <<"write ">> \o q.fname \o <<": no space left on device">>}
                    /\ q.resp.location = <<>>
              /\ (q.resp.location # <<>> \/ q.resp.status = 302) =>
                    /\ q.saved = "ok"
                    /\ q.resp.status = 302
                    /\ q.resp.location = <<"/","v","i","e","w","/">> \o TitleOfPath[q.path]

\* a save to a read-only page file was answered 500
C7_Witness ==
    \E c \in Reqs :
        /\ req[c].route = "save" /\ req[c].saved = "err" /\ req[c].pc = "done"
        /\ req[c].fname \in DOMAIN files /\ ~files[req[c].fname].writable
        /\ req[c].resp.status = 500

-----------------------------------------------------------------------------
(* C8: a successful save request for title t stores exactly the value of    *)
(* the submitted form field "body" (empty when the field is absent) as the  *)
(* content of t's file and then answers 302 to /view/<t>.                   *)

\* the step on which connection c's save completes
SaveCompletes(c) == req[c].pc = "writing" /\ req'[c].pc = "done" /\ req'[c].saved = "ok"

StoredAndRedirected(c) ==
    LET t == TitleOfPath[req[c].path]
        f == t \o <<".","t","x","t">>
    IN  /\ f \in DOMAIN files'
        /\ files'[f].data = Submitted(req[c].form, "body")
        /\ req'[c].resp.status = 302
        /\ req'[c].resp.location = <<"/","v","i","e","w","/">> \o t

\* C8 as stated: every save that completes has stored the form's body field
\* as the file's content and answers 302 to /view/<t>.
C8_Original == [][\A c \in Reqs : SaveCompletes(c) => StoredAndRedirected(c)]_vars

\* C8 as amended: every save that completes with no step of another save on
\* the file since it opened it has stored the form's body field as the file's
\* content and answers 302 to /view/<t>.
C8_SaveStoresBodyField ==
    [][\A c \in Reqs : (SaveCompletes(c) /\ req[c].clean) => StoredAndRedirected(c)]_vars

\* a save whose form has the field in its body after another field, and in
\* its query too, stored the body's value
C8_Witness ==
    \E c \in Reqs :
        /\ req[c].route = "save" /\ req[c].pc = "done"
        /\ req[c].saved = "ok" /\ req[c].clean
        /\ Len(req[c].form.post) = 2 /\ req[c].form.query # <<>>
        /\ req[c].fname \in DOMAIN files
        /\ files[req[c].fname].data = <<"<","y">>

-----------------------------------------------------------------------------
(* C9: the scenario.  POST /save/TestPage with the form field body set to   *)
(* hello=world creates TestPage.txt holding hello=world, and a GET          *)
(* /view/TestPage that follows it returns HTML with the text hello=world    *)
(* and the title TestPage.                                                  *)
ScenarioSave(q) ==
    /\ q.path = <<"/","s","a","v","e","/","T","e","s","t","P","a","g","e">>
    /\ q.form = [post |-> <<[k |-> "body", v |-> HelloWorld]>>, query |-> <<>>]

ScenarioView(q) ==
    /\ q.path = <<"/","v","i","e","w","/","T","e","s","t","P","a","g","e">>
    /\ q.base = <<HelloWorld>>

C9_SaveStep ==
    \A c \in Reqs :
        (ScenarioSave(req[c]) /\ SaveCompletes(c) /\ req[c].clean) =>
            /\ FileName(TestPage) \in DOMAIN files'
            /\ files'[FileName(TestPage)].data = HelloWorld
            /\ lastSaved'[FileName(TestPage)] = HelloWorld

C9_ViewState ==
    \A c \in Reqs :
        LET q == req[c]
        IN  ScenarioView(q) =>
              /\ q.loaded # "err"
              /\ (q.pc = "done" /\ q.rendered = "ok") =>
                    /\ q.resp.status = 200
                    /\ Contains(q.resp.body, HelloWorld)
                    /\ Contains(q.resp.body, TestPage)

\* C9: the scenario's save leaves TestPage.txt holding hello=world, and the
\* view that follows it returns HTML with hello=world and TestPage.
C9_Scenario == []C9_ViewState /\ [][C9_SaveStep]_vars

\* the save created the file and the view that followed it was rendered
C9_Witness ==
    \E c, d \in Reqs :
        /\ ScenarioSave(req[d]) /\ req[d].saved = "ok" /\ req[d].clean
        /\ req[d].prev = <<>>
        /\ ScenarioView(req[c]) /\ req[c].pc = "done" /\ req[c].rendered = "ok"

-----------------------------------------------------------------------------
(* C10: view and edit are pure reads.  No step of a view or edit request    *)
(* changes the content or the existence of any file; a step that changes    *)
(* the directory is a step of a save request.                               *)
RouteAtStep(c) == IF req[c].pc = "idle" THEN req'[c].route ELSE req[c].route

C10_ReadsChangeNothing ==
    /\ \A c \in Reqs :
          (Stepped(c) /\ RouteAtStep(c) \in {"view", "edit"}) => files' = files
    /\ files' # files => \E c \in Reqs : Stepped(c) /\ RouteAtStep(c) = "save"

\* C10: view and edit requests change no file; only a save request's step
\* changes the directory.
C10_PureReads == [][C10_ReadsChangeNothing]_vars

\* an edit of a page without a file ended, and the page still has no file
C10_Witness ==
    \E c \in Reqs :
        /\ req[c].route = "edit" /\ req[c].pc = "done" /\ req[c].nrender = 1
        /\ req[c].loaded = "err"
        /\ dirWritable /\ req[c].fname \notin DOMAIN files

-----------------------------------------------------------------------------
(* C11: two concurrent saves of one title, with bodies b1 and b2, that both *)
(* complete successfully.                                                   *)

\* both connections have completed a successful save of the same file, and
\* the two saves overlapped
TwoSavesDone ==
    /\ \A c \in Reqs : req[c].route = "save" /\ req[c].pc = "done" /\ req[c].saved = "ok"
    /\ req["c1"].fname = req["c2"].fname
    /\ \E c \in Reqs : ~req[c].clean

\* the body that was written last, then what the body written first has
\* beyond its length
Overlay(last, first) == last \o SubSeq(first, Len(last) + 1, Len(first))

\* C11 as stated: after two concurrent successful saves of one title the file
\* holds exactly the body of one of them, never a mixture.
C11_Original ==
    TwoSavesDone =>
        files[req["c1"].fname].data
            \in {Submitted(req[c].form, "body") : c \in Reqs}

\* C11 as amended: after two concurrent successful saves of one title the
\* file holds the body of one of them, or one body followed by what the
\* other, longer one has beyond its length.
C11_LastWriteOverlays ==
    TwoSavesDone =>
        LET b1 == Submitted(req["c1"].form, "body")
            b2 == Submitted(req["c2"].form, "body")
        IN  files[req["c1"].fname].data \in {b1, b2, Overlay(b1, b2), Overlay(b2, b1)}

\* two overlapping saves have both succeeded and the file holds the short
\* body followed by the rest of the long one
C11_Witness ==
    /\ TwoSavesDone
    /\ files[req["c1"].fname].data = <<"<","y","l","l","o","=","w","o","r","l","d">>

-----------------------------------------------------------------------------
(* C12: the request GET /nonexistent/../../etc/passwd.                      *)

TraversalPath ==
    <<"/","n","o","n","e","x","i","s","t","e","n","t","/",".",".","/",".",".",
      "/","e","t","c","/","p","a","s","s","w","d">>

EtcPasswd == <<"/","e","t","c","/","p","a","s","s","w","d">>

\* the request made no call of the page store
NoStoreCall(q) == q.nload = 0 /\ q.nsave = 0 /\ q.fname = <<>> /\ q.loaded = "nil" /\ q.saved = "nil"

\* C12 as stated: the request is answered 404 and never reaches the file
\* store.
C12_Original ==
    \A c \in Reqs :
        (req[c].path = TraversalPath /\ req[c].pc = "done") =>
            req[c].resp.status = 404 /\ NoStoreCall(req[c])

\* C12 as amended: the request is answered 301 to /etc/passwd by the serving
\* layer, with no handler run and no call of the page store; the request for
\* /etc/passwd goes to the static fallback, which answers 200 or 404 without
\* a call of the page store.
C12_TraversalRedirected ==
    \A c \in Reqs :
        LET q == req[c]
        IN  /\ q.path = TraversalPath =>
                  /\ q.pc = "done" /\ q.route = "nil"
                  /\ q.resp = [status |-> 301, location |-> EtcPasswd, body |-> <<>>]
                  /\ NoStoreCall(q)
            /\ q.path = EtcPasswd =>
                  /\ q.route = "static" /\ NoStoreCall(q)
                  /\ q.pc = "done" => q.resp.status \in {200, 404}

\* the request was answered while another connection's save had a page file
\* open
C12_Witness ==
    \E c, d \in Reqs :
        /\ req[c].path = TraversalPath /\ req[c].pc = "done"
        /\ req[c].resp.status = 301
        /\ req[d].pc = "writing"

-----------------------------------------------------------------------------
(* C13: the life of a title's file.  It comes into being only by a step of  *)
(* a save request for that title; once there it stays; and after successful *)
(* saves that do not overlap it holds the body of the latest one.           *)

\* connection c steps, and its request is a save request for the title of
\* file f
SaveRequestStepsFor(c, f) ==
    /\ Stepped(c)
    /\ req[c].path \in PagePaths
    /\ ActionOf(req[c].path) = <<"s","a","v","e">>
    /\ TitleOfPath[req[c].path] \o <<".","t","x","t">> = f

C13_Steps ==
    /\ \A f \in DOMAIN files' \ DOMAIN files : \E c \in Reqs : SaveRequestStepsFor(c, f)
    /\ DOMAIN files \subseteq DOMAIN files'

C13_LatestBody ==
    \A f \in DOMAIN lastSaved : f \in DOMAIN files /\ files[f].data = lastSaved[f]

\* C13: a file appears only on a step of a save request for its title, no
\* step removes a file, and a file whose latest save succeeded undisturbed
\* holds that save's body.
C13_TitleStateMachine == []C13_LatestBody /\ [][C13_Steps]_vars

\* a second save of a title that the first one created has replaced the
\* first one's longer body
C13_Witness ==
    \E c \in Reqs :
        /\ req[c].route = "save" /\ req[c].pc = "done" /\ req[c].saved = "ok"
        /\ req[c].clean
        /\ req[c].prev = <<HelloWorld>>
        /\ req[c].fname = FileName(OtherTitle)
        /\ req[c].fname \in DOMAIN lastSaved
        /\ files[req[c].fname].data = <<"<","y">>

-----------------------------------------------------------------------------
(* C14: every failure of a load is taken alike, whatever its cause: view    *)
(* answers 302 to /edit/<title>, edit renders the blank form for the title, *)
(* and the load's error is never answered as 500.                           *)
LoadErrorCauses ==
    {<<": no such file or directory">>, <<": permission denied">>, <<": is a directory">>}

\* the load's error is one of the open or read errors of the file
HasLoadCause(q) ==
    \E cause \in LoadErrorCauses, call \in {<<"open ">>, <<"read ">>} :
        q.err = call \o q.fname \o cause

C14_LoadFailuresAlike ==
    \A c \in Reqs :
        LET q == req[c]
            t == TitleOfPath[q.path]
        IN  (q.route \in {"view", "edit"} /\ q.loaded = "err") =>
              /\ HasLoadCause(q)
              /\ q.route = "view" =>
                    /\ q.pc = "done"
                    /\ q.resp = [status |-> 302, body |-> <<>>,
                                 location |-> <<"/","e","d","i","t","/">> \o t]
              /\ q.route = "edit" =>
                    /\ q.page = <<[Title |-> t, Body |-> <<>>]>>
                    /\ q.pc \in {"render", "done"}
                    /\ q.pc = "done" =>
                          /\ q.rendered = "ok" =>
                                q.resp = [status |-> 200, location |-> <<>>,
                                          body |-> EditHTML([Title |-> t, Body |-> <<>>])]
                          /\ q.resp.status = 500 => q.rendered = "err"
                          /\ ~Contains(q.resp.body, q.err)

\* a view of a title whose file name is a directory's, which opens and does
\* not read, was redirected to the edit form
C14_Witness ==
    \E c \in Reqs :
        /\ req[c].route = "view" /\ req[c].loaded = "err" /\ req[c].pc = "done"
        /\ req[c].err = <<"read ">> \o req[c].fname \o <<": is a directory">>
        /\ req[c].resp.status = 302

\* an edit of a title whose file may not be read rendered the blank form
C14_WitnessDenied ==
    \E c \in Reqs :
        /\ req[c].route = "edit" /\ req[c].loaded = "err" /\ req[c].pc = "done"
        /\ req[c].err = <<"open ">> \o req[c].fname \o <<": permission denied">>
        /\ req[c].resp.status = 200

-----------------------------------------------------------------------------
(* C15: no retries.  A request calls the store's load at most once, its     *)
(* save at most once and the renderer at most once, and after a call that   *)
(* failed it makes no further call of that kind.                            *)
C15_NoRetries ==
    \A c \in Reqs :
        LET q == req[c]
        IN  /\ q.nload <= 1 /\ q.nsave <= 1 /\ q.nrender <= 1
            /\ q.loaded = "err" => q.pc \in {"render", "done"}
            /\ q.saved = "err" => q.pc = "done"
            /\ q.rendered = "err" => q.pc = "done"
            /\ q.pc = "done" =>
                  /\ q.nload = (IF q.loaded = "nil" THEN 0 ELSE 1)
                  /\ q.nsave = (IF q.saved = "nil" THEN 0 ELSE 1)
                  /\ q.nrender = (IF q.rendered = "nil" THEN 0 ELSE 1)

\* a save whose write failed on a full device was answered after that one
\* attempt
C15_Witness ==
    \E c \in Reqs :
        /\ req[c].route = "save" /\ req[c].pc = "done"
        /\ req[c].saved = "err" /\ req[c].nsave = 1
        /\ req[c].err = <<"write ">> \o req[c].fname \o <<": no space left on device">>

-----------------------------------------------------------------------------
(* C16: a template execution that fails during a render.                    *)

\* C16 as stated: when the execution of the template fails, the response is
\* 500 with the error text as its body, and no page.
C16_Original ==
    \A c \in Reqs :
        req[c].rendered = "err" =>
            /\ req[c].pc = "done"
            /\ req[c].resp.status = 500
            /\ req[c].resp.body = <<"template: execution error">>

-----------------------------------------------------------------------------
(* C17: the template set is loaded once, before any request is handled, and *)
(* is not changed afterwards; no request is served when the loading fails.  *)
C17_LoadedWhileServing ==
    /\ phase = "serving" <=> templates # <<>>
    /\ \A c \in Reqs : req[c].pc # "idle" => phase = "serving"
    /\ \A c \in Reqs :
          (req[c].pc = "done" /\ req[c].rendered = "ok") =>
              req[c].resp.body
                  = Execute(templates[1][IF req[c].route = "view" THEN "view.html"
                                         ELSE "edit.html"], req[c].page[1])

C17_LoadedOnce ==
    /\ templates # <<>> => templates' = templates
    /\ templates' # templates =>
          /\ phase = "parse" /\ phase' = "serving"
          /\ \A n \in {"edit.html", "view.html"} : templates'[1][n] = tmplFiles[n].data
    /\ phase \in {"serving", "panic"} => phase' = phase

\* C17: requests are handled only while the templates are loaded, the
\* rendered pages are those of the loaded templates, and the templates
\* change once, from nil to the parsed files, before the server listens.
C17_TemplatesLoadedOnce == []C17_LoadedWhileServing /\ [][C17_LoadedOnce]_vars

\* a page was rendered from the user's edit template, which the process
\* could not overwrite and loaded at startup
C17_Witness ==
    /\ phase = "serving"
    /\ templates[1]["edit.html"] = custom_html
    /\ req["c1"].pc = "done" /\ req["c1"].route = "edit" /\ req["c1"].rendered = "ok"
    /\ req["c1"].resp.body = <<"<p>">> \o req["c1"].title \o <<"</p>">>

-----------------------------------------------------------------------------
(* C18: what startup does to the template source files edit.html and        *)
(* view.html.                                                               *)
TemplateNames == {"edit.html", "view.html"}

BuiltinText(n) == IF n = "edit.html" THEN edit_html ELSE view_html

\* setup() is past its call for file n
SetupPast(n) == IF n = "edit.html" THEN phase # "makeEdit" ELSE phase \notin {"makeEdit", "makeView"}

\* the process could open file n for writing when it started
WritableAtStart(n) ==
    IF n \in DOMAIN atStart THEN atStart[n].readable /\ atStart[n].writable
    ELSE dirWritable

\* C18 as stated: a file that exists at startup keeps its content, and a
\* file that is absent holds the built-in text when the templates are read.
C18_Original ==
    \A n \in TemplateNames :
        SetupPast(n) =>
            /\ n \in DOMAIN atStart => tmplFiles[n].data = atStart[n].data
            /\ (n \notin DOMAIN atStart /\ templates # <<>>) =>
                  tmplFiles[n].data = BuiltinText(n)

\* C18 as amended: a file the process can open for writing, absent or not,
\* holds the built-in text after setup, or nothing when the write failed; a
\* file it cannot open is left as it was; the templates are read after that,
\* from the files as setup left them.
C18_SetupOverwrites ==
    /\ \A n \in TemplateNames :
          SetupPast(n) =>
              IF WritableAtStart(n)
              THEN n \in DOMAIN tmplFiles /\ tmplFiles[n].data \in {BuiltinText(n), ""}
              ELSE /\ n \in DOMAIN atStart => tmplFiles[n] = atStart[n]
                   /\ n \notin DOMAIN atStart => n \notin DOMAIN tmplFiles
    /\ \A n \in TemplateNames :
          ~SetupPast(n) =>
              /\ n \in DOMAIN atStart <=> n \in DOMAIN tmplFiles
              /\ n \in DOMAIN atStart => tmplFiles[n] = atStart[n]
    /\ templates # <<>> =>
          \A n \in TemplateNames : SetupPast(n) /\ templates[1][n] = tmplFiles[n].data

\* the user's writable edit.html was overwritten with the built-in text and
\* the templates were loaded from it
C18_Witness ==
    /\ "edit.html" \in DOMAIN atStart
    /\ atStart["edit.html"].data = custom_html /\ atStart["edit.html"].writable
    /\ tmplFiles["edit.html"].data = edit_html
    /\ templates # <<>>
    /\ templates[1]["edit.html"] = edit_html

-----------------------------------------------------------------------------
(* C19: redirect chains are bounded and free of loops.  A client that       *)
(* follows every 302 gets a response that is no redirect after at most two  *)
(* redirects; edit never redirects, and no handler redirects to save or to  *)
(* its own route.                                                           *)
C19_RedirectChains ==
    \A c \in Reqs :
        LET q == req[c]
        IN  /\ q.hops <= 2
            /\ (q.pc = "done" /\ q.hops = 2) => q.resp.status # 302
            /\ q.route = "edit" => q.resp.status # 302
            /\ q.resp.status = 302 =>
                  \/ /\ q.route = "save"
                     /\ q.resp.location = <<"/","v","i","e","w","/">> \o TitleOfPath[q.path]
                  \/ /\ q.route = "view"
                     /\ q.resp.location = <<"/","e","d","i","t","/">> \o TitleOfPath[q.path]
            /\ q.hops = 1 => q.route \in {"view", "edit"}
            /\ q.hops = 2 => q.route = "edit"

\* a client was sent from its save to the view and from the view, which could
\* not read the write-only file, to the edit form, which was rendered
C19_Witness ==
    /\ req["c1"].hops = 2
    /\ req["c1"].route = "edit"
    /\ req["c1"].pc = "done"
    /\ req["c1"].resp.status = 200

-----------------------------------------------------------------------------
(* C20: a load of title t beside one successful save of body b to t, whose  *)
(* file held b0 before the save.                                            *)

\* the first connection's load of a file has returned, and the second
\* connection's only request, a save to that file, which held content
\* before it, has succeeded
LoadBesideSave ==
    /\ req["c1"].route \in {"view", "edit"} /\ req["c1"].loaded # "nil"
    /\ req["c2"].pc = "done" /\ req["c2"].saved = "ok"
    /\ req["c1"].fname = req["c2"].fname
    /\ req["c2"].prev # <<>>

=============================================================================
